---- MODULE Spec2Model ----
(***************************************************************************)
(* Two text-rewriting scripts of the repository:                           *)
(*                                                                         *)
(*   rewrite_script.py  (Script-Splice)  splices new_script.js over the    *)
(*                      first module-script span of the demo page;         *)
(*   tmp_modify.py      (Markup-Patch)   injects a CSS block and replaces  *)
(*                      the game-info fragment of public/index.html.       *)
(*                                                                         *)
(* Documents are sequences of lexemes.  Each lexeme stands for one fixed   *)
(* piece of text; the literals the scripts search for are sequences of     *)
(* lexemes, so that a search of the script is a subsequence search here.   *)
(*                                                                         *)
(* Spec       runs of the two scripts, statement by statement, against a   *)
(*            storage of three files.                                      *)
(* SpecSteps  the two in-memory steps of tmp_modify.py (lines 220-230)     *)
(*            applied to every document of bounded length.                 *)
(***************************************************************************)
EXTENDS Integers, Sequences, FiniteSets, TLC

VARIABLES
    fs,           \* storage: file name -> content (a lexeme sequence) or NoFile
    linesep,      \* os.linesep of the platform the scripts run on
    pc,           \* statement the running script is at, "idle" between runs
    script,       \* the script of the current (or last) run
    html_text,    \* rewrite_script.py: html_text
    script_text,  \* rewrite_script.py: script_text
    start,        \* rewrite_script.py: start
    end,          \* rewrite_script.py: end
    text,         \* tmp_modify.py: text
    outcome,      \* how the last run ended
    fs0,          \* history: the storage when the current run began
    wrote,        \* history: files written by the current run
    log,          \* history: one record per finished run
    runs,         \* number of runs begun
    input,        \* SpecSteps: the document the steps were first given
    styled,       \* SpecSteps: results of the successive style injections
    replaced      \* SpecSteps: results of the markup replacement

vars == <<fs, linesep, pc, script, html_text, script_text, start, end, text,
          outcome, fs0, wrote, log, runs, input, styled, replaced>>

----------------------------------------------------------------------------
(* Bounds *)

MaxHost == 3
MaxRepl == 2
MaxDoc == 4
MaxRuns == 2
MaxApply == 2

----------------------------------------------------------------------------
(* File names and literals of the scripts *)

html_path == "demos/working-multiplayer-demo.html"
script_path == "new_script.js"
path == "public/index.html"
Files == {html_path, script_path, path}

\* content of a name that is not on storage (reading it raises FileNotFoundError)
NoFile == <<"ENOENT">>

\* '<script type="module">' and '</script>'
OpenTag == <<"OPEN">>
CloseTag == <<"CLOSE">>

\* 'combat-controls'
Marker == <<"MARKER">>

\* '  </style>': two spaces of indentation, then the closing tag
StyleEnd == <<"INDENT", "STYLE_END">>

\* the closing tag alone, '</style>'
StyleTag == <<"STYLE_END">>

\* the CSS block; it names the class .combat-controls three times
css_insert == <<"css1", "MARKER", "css2", "MARKER", "css3", "MARKER", "css4">>

\* css_insert + '\n\n  </style>'
StyleRepl == css_insert \o <<"NLNL", "INDENT", "STYLE_END">>

\* the game-info div (five lines) followed by '\n    </section>'
old_block == <<"GAME_INFO", "SECTION_END">>

\* the game-info div, the combat-controls div (class and data attribute both
\* spell 'combat-controls'), telemetry and sandbox, then '\n    </section>'
new_markup == <<"GAME_INFO", "nm1", "MARKER", "nm2", "MARKER", "nm3", "SECTION_END">>

Diagnostic == "SystemExit: Could not locate combat insertion point"

----------------------------------------------------------------------------
(* Python's str operations, positions 0-based as in the source *)

SeqsUpTo(A, n) == UNION {[1..k -> A] : k \in 0..n}

MinOf(S) == CHOOSE m \in S : \A o \in S : m <= o

\* sub occurs in s at 0-based position i
MatchAt(s, sub, i) ==
    /\ i >= 0
    /\ i + Len(sub) <= Len(s)
    /\ \A k \in 1..Len(sub) : s[i + k] = sub[k]

\* s.find(sub, from): lowest position >= from where sub occurs, -1 if none
find(s, sub, from) ==
    LET cands == {i \in from..(Len(s) - Len(sub)) : MatchAt(s, sub, i)}
    IN  IF cands = {} THEN -1 ELSE MinOf(cands)

\* sub in s
contains(s, sub) == find(s, sub, 0) # -1

\* s[a:b]
slice(s, a, b) == SubSeq(s, a + 1, b)

\* s.replace(old, new): every non-overlapping occurrence, left to right
RECURSIVE replace(_, _, _)
replace(s, old, new) ==
    LET i == find(s, old, 0)
    IN  IF i = -1
        THEN s
        ELSE slice(s, 0, i) \o new
               \o replace(slice(s, i + Len(old), Len(s)), old, new)

\* s.replace(old, new, 1): the first occurrence only
replace_first(s, old, new) ==
    LET i == find(s, old, 0)
    IN  IF i = -1
        THEN s
        ELSE slice(s, 0, i) \o new \o slice(s, i + Len(old), Len(s))

\* s.index(sub, from) raises ValueError exactly when find gives -1
IndexFound_Always(i) == TRUE

IndexFound(i) == i # -1

----------------------------------------------------------------------------
(* Path.read_text / Path.write_text: text mode with universal newlines *)

\* read_text(encoding='utf-8'): '\r\n' and a lone '\r' are read as '\n'
RECURSIVE read_text(_)
read_text(b) ==
    IF b = <<>> THEN <<>>
    ELSE IF Head(b) = "CR"
         THEN <<"LF">> \o read_text(IF Len(b) >= 2 /\ b[2] = "LF"
                                     THEN SubSeq(b, 3, Len(b))
                                     ELSE Tail(b))
         ELSE <<Head(b)>> \o read_text(Tail(b))

\* write_text(t, encoding='utf-8'): every '\n' is written as os.linesep
RECURSIVE write_text(_, _)
write_text(t, sep) ==
    IF t = <<>> THEN <<>>
    ELSE (IF Head(t) = "LF" THEN sep ELSE <<Head(t)>>) \o write_text(Tail(t), sep)

----------------------------------------------------------------------------
(* tmp_modify.py, lines 220-228: the two steps as functions of text *)

\* the step without its guard
StyleInject_Unguarded(t) == replace(t, StyleEnd, StyleRepl)

\* the step replacing one occurrence only
StyleInject_FirstOnly(t) ==
    IF ~contains(t, Marker) THEN replace_first(t, StyleEnd, StyleRepl) ELSE t

\* if 'combat-controls' not in text: text = text.replace('  </style>', ...)
StyleInject(t) ==
    IF ~contains(t, Marker) THEN replace(t, StyleEnd, StyleRepl) ELSE t

MarkupReplace_FirstOnly(t) == replace_first(t, old_block, new_markup)

\* text.replace(old_block, new_markup)
MarkupReplace(t) == replace(t, old_block, new_markup)

----------------------------------------------------------------------------
(* Inputs *)

Bytes == {"OPEN", "CLOSE", "CR", "LF"}
HostFiles == SeqsUpTo(Bytes, MaxHost)
ReplFiles == SeqsUpTo(Bytes, MaxRepl)

Lexemes == {"INDENT", "STYLE_END", "MARKER", "GAME_INFO", "SECTION_END", "x"}
Docs == SeqsUpTo(Lexemes, MaxDoc)

\* documents a completed patch would have produced
PatchOutputs ==
    {MarkupReplace(StyleInject(d)) : d \in {e \in Docs : contains(StyleInject(e), old_block)}}

LineSeps == {<<"LF">>, <<"CR", "LF">>}

----------------------------------------------------------------------------
(* State shared by the actions *)

Storage(h, r, d) ==
    [f \in Files |-> IF f = html_path THEN h ELSE IF f = script_path THEN r ELSE d]

Target(s) == IF s = "rewrite_script" THEN html_path ELSE path

\* a fresh interpreter: no name of either script is bound yet
FreshLocals ==
    /\ html_text' = <<>>
    /\ script_text' = <<>>
    /\ start' = -1
    /\ end' = -1
    /\ text' = <<>>

\* the process ends with outcome o, the storage being f
Finish(o, f) ==
    /\ pc' = "idle"
    /\ outcome' = o
    /\ fs' = f
    /\ log' = Append(log, [script |-> script, outcome |-> o, after |-> f[Target(script)]])

Init ==
    /\ linesep \in LineSeps
    /\ \/ \E h \in HostFiles \cup {NoFile}, r \in ReplFiles \cup {NoFile} :
             fs = Storage(h, r, NoFile)
       \/ \E d \in Docs \cup PatchOutputs \cup {NoFile} :
             fs = Storage(NoFile, NoFile, d)
    /\ pc = "idle"
    /\ script = "none"
    /\ html_text = <<>>
    /\ script_text = <<>>
    /\ start = -1
    /\ end = -1
    /\ text = <<>>
    /\ outcome = "none"
    /\ fs0 = fs
    /\ wrote = {}
    /\ log = <<>>
    /\ runs = 0
    /\ input = <<>>
    /\ styled = <<>>
    /\ replaced = <<>>

StepVars == <<input, styled, replaced>>

----------------------------------------------------------------------------
(* rewrite_script.py *)

\* python rewrite_script.py
rs_start ==
    /\ pc = "idle"
    /\ runs < MaxRuns
    /\ runs' = runs + 1
    /\ script' = "rewrite_script"
    /\ pc' = "rs5"
    /\ outcome' = "running"
    /\ fs0' = fs
    /\ wrote' = {}
    /\ FreshLocals
    /\ UNCHANGED <<fs, linesep, log, StepVars>>

\* line 5: html_text = html_path.read_text(encoding='utf-8')
rs_read_html ==
    /\ pc = "rs5"
    /\ IF fs[html_path] = NoFile
       THEN /\ Finish("FileNotFoundError", fs)
            /\ UNCHANGED html_text
       ELSE /\ html_text' = read_text(fs[html_path])
            /\ pc' = "rs6"
            /\ UNCHANGED <<fs, outcome, log>>
    /\ UNCHANGED <<linesep, script, script_text, start, end, text, fs0, wrote, runs, StepVars>>

\* line 6: script_text = script_path.read_text(encoding='utf-8')
rs_read_script ==
    /\ pc = "rs6"
    /\ IF fs[script_path] = NoFile
       THEN /\ Finish("FileNotFoundError", fs)
            /\ UNCHANGED script_text
       ELSE /\ script_text' = read_text(fs[script_path])
            /\ pc' = "rs7"
            /\ UNCHANGED <<fs, outcome, log>>
    /\ UNCHANGED <<linesep, script, html_text, start, end, text, fs0, wrote, runs, StepVars>>

\* line 7: start = html_text.index('<script type="module">')
rs_index_open ==
    /\ pc = "rs7"
    /\ LET i == find(html_text, OpenTag, 0)
       IN  IF IndexFound(i)
           THEN /\ start' = i
                /\ pc' = "rs8"
                /\ UNCHANGED <<fs, outcome, log>>
           ELSE /\ Finish("ValueError", fs)
                /\ UNCHANGED start
    /\ UNCHANGED <<linesep, script, html_text, script_text, end, text, fs0, wrote, runs, StepVars>>

\* the closing tag looked up from the beginning of the document
rs_index_close_FromZero ==
    /\ pc = "rs8"
    /\ LET i == find(html_text, CloseTag, 0)
       IN  IF IndexFound(i)
           THEN /\ end' = i + Len(CloseTag)
                /\ pc' = "rs9"
                /\ UNCHANGED <<fs, outcome, log>>
           ELSE /\ Finish("ValueError", fs)
                /\ UNCHANGED end
    /\ UNCHANGED <<linesep, script, html_text, script_text, start, text, fs0, wrote, runs, StepVars>>

\* line 8: end = html_text.index('</script>', start) + len('</script>')
rs_index_close ==
    /\ pc = "rs8"
    /\ LET i == find(html_text, CloseTag, start)
       IN  IF IndexFound(i)
           THEN /\ end' = i + Len(CloseTag)
                /\ pc' = "rs9"
                /\ UNCHANGED <<fs, outcome, log>>
           ELSE /\ Finish("ValueError", fs)
                /\ UNCHANGED end
    /\ UNCHANGED <<linesep, script, html_text, script_text, start, text, fs0, wrote, runs, StepVars>>

\* the splice, with the file already written at this statement
rs_splice_Writes ==
    /\ pc = "rs9"
    /\ html_text' = slice(html_text, 0, start) \o script_text
                      \o slice(html_text, end, Len(html_text))
    /\ fs' = [fs EXCEPT ![html_path] = write_text(html_text', linesep)]
    /\ wrote' = wrote \cup {html_path}
    /\ pc' = "rs10"
    /\ UNCHANGED <<linesep, script, script_text, start, end, text, outcome, fs0, log, runs, StepVars>>

\* line 9: html_text = html_text[:start] + script_text + html_text[end:]
rs_splice ==
    /\ pc = "rs9"
    /\ html_text' = slice(html_text, 0, start) \o script_text
                      \o slice(html_text, end, Len(html_text))
    /\ pc' = "rs10"
    /\ UNCHANGED <<fs, linesep, script, script_text, start, end, text, outcome, fs0, wrote, log, runs, StepVars>>

\* line 10: html_path.write_text(html_text, encoding='utf-8')
rs_write ==
    /\ pc = "rs10"
    /\ wrote' = wrote \cup {html_path}
    /\ Finish("written", [fs EXCEPT ![html_path] = write_text(html_text, linesep)])
    /\ UNCHANGED <<linesep, script, html_text, script_text, start, end, text, fs0, runs, StepVars>>

----------------------------------------------------------------------------
(* tmp_modify.py, as a process *)

\* python tmp_modify.py
tm_start ==
    /\ pc = "idle"
    /\ runs < MaxRuns
    /\ runs' = runs + 1
    /\ script' = "tmp_modify"
    /\ pc' = "tm2"
    /\ outcome' = "running"
    /\ fs0' = fs
    /\ wrote' = {}
    /\ FreshLocals
    /\ UNCHANGED <<fs, linesep, log, StepVars>>

\* line 2: path = Path('public/index.html')
\* The module binds no name Path (it has no import), so evaluating the
\* right-hand side raises NameError and the process ends here.
tm_path ==
    /\ pc = "tm2"
    /\ Finish("NameError", fs)
    /\ UNCHANGED <<linesep, script, html_text, script_text, start, end, text, fs0, wrote, runs, StepVars>>

Next ==
    \/ rs_start
    \/ rs_read_html
    \/ rs_read_script
    \/ rs_index_open
    \/ rs_index_close
    \/ rs_splice
    \/ rs_write
    \/ tm_start
    \/ tm_path

Spec == Init /\ [][Next]_vars

----------------------------------------------------------------------------
(* tmp_modify.py, lines 220-230, applied to a document held in text *)

RunVars == <<fs, linesep, script, html_text, script_text, start, end, fs0, wrote, log, runs>>

StepsInit ==
    /\ text \in Docs
    /\ input = text
    /\ styled = <<>>
    /\ replaced = <<>>
    /\ pc = "tm220"
    /\ outcome = "running"
    /\ script = "tmp_modify"
    /\ fs = Storage(NoFile, NoFile, NoFile)
    /\ fs0 = fs
    /\ linesep = <<"LF">>
    /\ html_text = <<>>
    /\ script_text = <<>>
    /\ start = -1
    /\ end = -1
    /\ wrote = {}
    /\ log = <<>>
    /\ runs = 0

\* lines 220-221: the style-injection step
tm_style ==
    /\ pc = "tm220"
    /\ text' = StyleInject(text)
    /\ styled' = Append(styled, [in |-> text, out |-> text'])
    /\ pc' = "tm227"
    /\ UNCHANGED <<RunVars, outcome, input, replaced>>

\* lines 227-228: the markup-replacement step, fragment found
tm_replace ==
    /\ pc = "tm227"
    /\ contains(text, old_block)
    /\ text' = MarkupReplace(text)
    /\ replaced' = Append(replaced, [in |-> text, out |-> text'])
    /\ pc' = "tm232"
    /\ UNCHANGED <<RunVars, outcome, input, styled>>

\* lines 229-230: raise SystemExit('Could not locate combat insertion point')
tm_raise ==
    /\ pc = "tm227"
    /\ ~contains(text, old_block)
    /\ outcome' = Diagnostic
    /\ pc' = "exit"
    /\ UNCHANGED <<RunVars, text, input, styled, replaced>>

\* the steps are given their own result as the next document
tm_again ==
    /\ pc \in {"tm227", "tm232"}
    /\ Len(styled) < MaxApply
    /\ pc' = "tm220"
    /\ UNCHANGED <<RunVars, text, outcome, input, styled, replaced>>

StepsNext ==
    \/ tm_style
    \/ tm_replace
    \/ tm_raise
    \/ tm_again

SpecSteps == StepsInit /\ [][StepsNext]_vars

----------------------------------------------------------------------------
(* Vocabulary of the properties *)

\* the positions at which sub occurs in s
Occ(s, sub) == {i \in 0..(Len(s) - Len(sub)) : MatchAt(s, sub, i)}

Count(s, sub) == Cardinality(Occ(s, sub))

\* s with block put in front of every position of P
RECURSIVE InsertBefore(_, _, _, _)
InsertBefore(s, P, block, i) ==
    IF i >= Len(s) THEN <<>>
    ELSE (IF i \in P THEN block ELSE <<>>) \o <<s[i + 1]>>
           \o InsertBefore(s, P, block, i + 1)

\* s with the n lexemes at every position of P given up for new
RECURSIVE Subst(_, _, _, _, _)
Subst(s, P, n, new, i) ==
    IF i >= Len(s) THEN <<>>
    ELSE IF i \in P
         THEN new \o Subst(s, P, n, new, i + n)
         ELSE <<s[i + 1]>> \o Subst(s, P, n, new, i + 1)

\* a run of script s has ended
Done(s) == pc = "idle" /\ script = s /\ outcome # "none"

\* h has an opening module-script tag with a closing tag after it
HasSpan(h) == \E i \in Occ(h, OpenTag) : \E j \in Occ(h, CloseTag) : j >= i

\* h[0..start) + r + h[end..), start at the first opening tag, end just past
\* the first closing tag at or after start
SpliceOf(h, r) ==
    LET s == MinOf(Occ(h, OpenTag))
        e == MinOf({j \in Occ(h, CloseTag) : j >= s}) + Len(CloseTag)
    IN  slice(h, 0, s) \o r \o slice(h, e, Len(h))

\* r begins with the opening tag, ends with the closing tag, has no other
\* closing tag
WellFormedRepl(r) ==
    /\ MatchAt(r, OpenTag, 0)
    /\ Occ(r, CloseTag) = {Len(r) - Len(CloseTag)}

----------------------------------------------------------------------------
(* Properties *)

\* C1: whenever the host file has a module-script span, the run writes back
\* exactly host[0..start) + replacement + host[end..): the text before and
\* after the span is byte-identical to the host file.
C1_SpliceResult ==
    (/\ Done("rewrite_script")
     /\ fs0[html_path] # NoFile
     /\ fs0[script_path] # NoFile
     /\ HasSpan(fs0[html_path]))
    => /\ outcome = "written"
       /\ fs[html_path] = SpliceOf(fs0[html_path], fs0[script_path])

\* C2: a run of tmp_modify.py on a document without the game-info fragment
\* ends with the diagnostic 'Could not locate combat insertion point' and
\* leaves public/index.html as it was.
C2_MissingAnchor ==
    (/\ Done("tmp_modify")
     /\ fs0[path] # NoFile
     /\ Occ(read_text(fs0[path]), old_block) = {})
    => /\ outcome = Diagnostic
       /\ fs[path] = fs0[path]

\* C3: a run of rewrite_script.py on a host document without the opening
\* module-script tag fails and never writes the host file; the failure is the
\* lookup error whenever the replacement could be read.
C3_MissingMarker ==
    (/\ Done("rewrite_script")
     /\ fs0[html_path] # NoFile
     /\ Occ(fs0[html_path], OpenTag) = {})
    => /\ outcome \in {"ValueError", "FileNotFoundError"}
       /\ (fs0[script_path] # NoFile => outcome = "ValueError")
       /\ wrote = {}
       /\ fs = fs0

C3_Witness ==
    /\ Done("rewrite_script")
    /\ fs0[html_path] # NoFile
    /\ Len(fs0[html_path]) > 0
    /\ Occ(fs0[html_path], OpenTag) = {}
    /\ Occ(fs0[html_path], CloseTag) # {}
    /\ outcome = "ValueError"

\* C4 (as amended): with the marker absent, the style-injection step puts the
\* CSS block and a blank line in front of every two-space-indented '</style>'
\* and changes nothing else (a document without an indented closing tag is
\* unchanged); with the marker present the document is unchanged.
C4_StyleInjection ==
    \A k \in 1..Len(styled) :
        LET d == styled[k].in
            r == styled[k].out
        IN  IF Occ(d, Marker) # {}
            THEN r = d
            ELSE r = InsertBefore(d, Occ(d, StyleEnd), css_insert \o <<"NLNL">>, 0)

C4_Witness ==
    /\ Len(styled) >= 1
    /\ Occ(styled[1].in, Marker) = {}
    /\ Count(styled[1].in, StyleEnd) = 1
    /\ Head(styled[1].in) = "x"
    /\ styled[1].out # styled[1].in

\* C4 (as claimed): with the marker absent and a '</style>' present, the CSS
\* block is inserted immediately before the first '</style>' and nowhere else;
\* with the marker present the document is unchanged.
C4_FirstStyleTag ==
    \A k \in 1..Len(styled) :
        LET d == styled[k].in
            r == styled[k].out
        IN  IF Occ(d, Marker) # {}
            THEN r = d
            ELSE Occ(d, StyleTag) # {} =>
                   LET p == MinOf(Occ(d, StyleTag))
                   IN  \/ r = slice(d, 0, p) \o css_insert \o slice(d, p, Len(d))
                       \/ /\ p >= 1
                          /\ d[p] = "INDENT"
                          /\ r = slice(d, 0, p - 1) \o StyleRepl \o slice(d, p + 1, Len(d))

\* C5 (as amended): the markup-replacement step replaces every occurrence of
\* the game-info fragment by new_markup, all other text unchanged.
C5_MarkupReplacement ==
    \A k \in 1..Len(replaced) :
        replaced[k].out =
            Subst(replaced[k].in, Occ(replaced[k].in, old_block), Len(old_block), new_markup, 0)

C5_Witness ==
    /\ Len(replaced) >= 1
    /\ Count(replaced[1].in, old_block) = 1
    /\ Len(replaced[1].in) > Len(old_block)
    /\ Count(replaced[1].out, new_markup) = 1

\* C5 (as claimed): the first occurrence of the fragment, and only that one,
\* is replaced by new_markup; the text around it is unchanged.
C5_FirstOccurrenceOnly ==
    \A k \in 1..Len(replaced) :
        LET d == replaced[k].in
            p == MinOf(Occ(d, old_block))
        IN  replaced[k].out =
                slice(d, 0, p) \o new_markup \o slice(d, p + Len(old_block), Len(d))

\* C6 (as amended): applying the style-injection step to its own result gives
\* that result again, and no application after the first changes the document
\* it is given: the CSS block is not inserted again and the number of
\* occurrences of the marker stays what the first application left.
C6_Idempotent ==
    \A k \in 2..Len(styled) :
        /\ styled[k].out = styled[k].in
        /\ styled[k].in = styled[k - 1].out => styled[k].out = styled[k - 1].out
        /\ Count(styled[k].out, css_insert) = Count(styled[k].in, css_insert)
        /\ Count(styled[k].out, Marker) = Count(styled[k].in, Marker)

C6_Witness ==
    /\ Len(styled) >= 2
    /\ styled[1].out # styled[1].in
    /\ styled[2].in = styled[1].out
    /\ styled[2].out = styled[1].out

\* C6 (as claimed): a second application changes nothing, and once the CSS
\* block is in the document the marker occurs exactly once, however often the
\* step is applied.
C6_MarkerOnce ==
    \A k \in 1..Len(styled) :
        /\ k >= 2 => styled[k].out = styled[k].in
        /\ styled[1].out # styled[1].in => Count(styled[k].out, Marker) = 1

\* C7: a run of tmp_modify.py on a document that a completed patch produced
\* (it holds new_markup and no game-info fragment) ends with the diagnostic
\* 'Could not locate combat insertion point' and leaves the file unchanged.
C7_NotRerunnable ==
    (/\ Done("tmp_modify")
     /\ fs0[path] \in PatchOutputs)
    => /\ Occ(fs0[path], old_block) = {}
       /\ outcome = Diagnostic
       /\ fs = fs0

\* C8: the one write of a run is its last step and comes only after every
\* lookup has succeeded; before it, and after a run that failed at any
\* earlier step, the storage is what it was when the run began; only the
\* script's own target is ever written and new_script.js never is.
C8_WriteLast ==
    /\ wrote \subseteq {Target(script)}
    /\ fs[script_path] = fs0[script_path]
    /\ pc # "idle" => (fs = fs0 /\ wrote = {})
    /\ (pc = "idle" /\ outcome # "written") => (fs = fs0 /\ wrote = {})
    /\ outcome = "written" =>
         /\ pc = "idle"
         /\ wrote = {Target(script)}
         /\ \A f \in Files \ {Target(script)} : fs[f] = fs0[f]
         /\ script = "rewrite_script" =>
              /\ fs0[html_path] # NoFile
              /\ fs0[script_path] # NoFile
              /\ start \in Occ(read_text(fs0[html_path]), OpenTag)
              /\ end - Len(CloseTag) \in Occ(read_text(fs0[html_path]), CloseTag)
              /\ end - Len(CloseTag) >= start

C8_Witness ==
    /\ outcome = "written"
    /\ fs[html_path] # fs0[html_path]
    /\ wrote = {html_path}
    /\ Len(fs0[html_path]) > end

\* C9: with public/index.html readable, a run of tmp_modify.py ends either
\* with the file overwritten or with the diagnostic 'Could not locate combat
\* insertion point'; there is no other error outcome.
C9_Outcomes ==
    (Done("tmp_modify") /\ fs0[path] # NoFile)
    => outcome \in {"written", Diagnostic}

\* C10: with a replacement that begins with the opening tag, ends with the
\* closing tag and has no other closing tag, every run of rewrite_script.py
\* after a run that wrote succeeds too and writes the same document.
C10_SecondRun ==
    \A i, j \in 1..Len(log) :
        (/\ i < j
         /\ log[i].script = "rewrite_script"
         /\ log[j].script = "rewrite_script"
         /\ log[i].outcome = "written"
         /\ WellFormedRepl(read_text(fs[script_path])))
        => /\ log[j].outcome = "written"
           /\ log[j].after = log[i].after

C10_Witness ==
    /\ Len(log) = 2
    /\ log[1].script = "rewrite_script"
    /\ log[2].script = "rewrite_script"
    /\ log[1].outcome = "written"
    /\ log[2].outcome = "written"
    /\ WellFormedRepl(read_text(fs[script_path]))
    /\ log[1].after # fs0[html_path] \/ Len(log[1].after) > Len(fs[script_path])

====
